---------------------------- MODULE Spec2Model ----------------------------
(***************************************************************************)
(* A model of the RAG pipeline: the index synchronisation done by          *)
(* RAGSearch.__init__ (src/src/search.py), the adaptive reranker           *)
(* RAGSearch._adapt_results, the query path RAGSearch.search_and_summarize *)
(* and the ConversationMemoryStore (src/src/memory_store.py).              *)
(*                                                                         *)
(* FaissVectorStore (src.vectorestore), the embedding model and the        *)
(* language model are not part of the sources; they are modelled from      *)
(* their contracts in the specification, section 6.                        *)
(***************************************************************************)
EXTENDS Integers, Sequences, FiniteSets, TLC

(***************************************************************************)
(* Bounds of the model.                                                    *)
(***************************************************************************)
\* documents one file may load to (0 = no readable content)
MaxDocsPerFile == 1
\* length of the candidate lists handed to the reranker
MaxCands == 3
\* result indexes of the candidates are 0..MaxIndex
MaxIndex == 2
\* the requested top_k is 0..MaxTopK
MaxTopK == 6
\* turns the conversation memory may hold
MaxEntries == 2
\* the clock that stamps the turns runs to MaxTime
MaxTime == 3
\* the top_k of a memory query is 0..MaxMemTopK
MaxMemTopK == 2

(***************************************************************************)
(* Small helpers.                                                          *)
(***************************************************************************)
Range(s) == {s[i] : i \in 1..Len(s)}

RECURSIVE Concat(_)
\* the concatenation of a sequence of sequences (list.extend in a loop)
Concat(ss) == IF ss = <<>> THEN <<>> ELSE Head(ss) \o Concat(Tail(ss))

Max2(a, b) == IF a >= b THEN a ELSE b
Min2(a, b) == IF a <= b THEN a ELSE b

\* a file of the store directory: missing, or holding `data`
Absent == [exists |-> FALSE, data |-> <<>>]
File(data) == [exists |-> TRUE, data |-> data]

(***************************************************************************)
(* The data directory.  A file is named by its path relative to the data   *)
(* directory; SortedPaths is the order of sorted(data_path.rglob("*")).    *)
(***************************************************************************)
SortedPaths == <<"CopyOfExam/a.pdf", "notes/b.txt", "scan.PDF">>
AllPaths == Range(SortedPaths)

\* Path.suffix of each path
suffix(p) ==
    CASE p = "CopyOfExam/a.pdf" -> ".pdf"
      [] p = "notes/b.txt" -> ".txt"
      [] p = "scan.PDF" -> ".PDF"

\* str.lower on the suffixes that occur
suffix_lower(s) == IF s = ".PDF" THEN ".pdf" ELSE s

SUPPORTED_EXTENSIONS == {".pdf", ".txt", ".csv", ".xlsx", ".docx", ".json"}

\* the (mtime_ns, size) pairs each file's stat can show: a.pdf is rewritten
\* with the same size, b.txt is empty or not
StatsOf(p) ==
    CASE p = "CopyOfExam/a.pdf" ->
            {[mtime_ns |-> 1000, size |-> 120], [mtime_ns |-> 2000, size |-> 120]}
      [] p = "notes/b.txt" ->
            {[mtime_ns |-> 1000, size |-> 0], [mtime_ns |-> 1000, size |-> 120]}
      [] p = "scan.PDF" ->
            {[mtime_ns |-> 1000, size |-> 120]}

VARIABLES
    dir,            \* the data directory: path -> stat, for the files that exist
    manifestFile,   \* index_manifest.json: Absent or File(text), the text as the
                    \* sequence of its "files" entries in the order json.dumps wrote them
    indexFiles,     \* faiss.index + metadata.pkl: Absent or File(the metadata rows)
    vsMetadata,     \* RAGSearch.vectorstore.metadata of the running process
    rag,            \* "none": no RAGSearch object; "ready": constructed
    last            \* what the most recent construction did (observation only)

syncVars == <<dir, manifestFile, indexFiles, vsMetadata, rag, last>>

VARIABLES
    rr              \* one call of _adapt_results: its inputs and, once done, its output

rerankVars == <<rr>>

VARIABLES
    memIndex,           \* self.index: [exists |-> FALSE] for None, else its vectors
    memMetadata,        \* self.metadata
    memIndexFile,       \* memory.index: Absent or File(vectors)
    memMetadataFile,    \* memory_metadata.pkl: Absent or File(entries)
    clock,              \* the UTC clock
    appended,           \* the entries add_interaction has appended, in order (history)
    memObs              \* the last call on the store and what it returned (observation)

memVars == <<memIndex, memMetadata, memIndexFile, memMetadataFile, clock, appended, memObs>>

VARIABLES
    source_stats,   \* RAGSearch.source_stats
    pc,             \* where search_and_summarize stands: "idle", "llm", "record"
    call            \* the current or last call of search_and_summarize (observation)

queryVars == <<source_stats, pc, call>>

otherThanSync == <<rerankVars, memVars, queryVars>>
otherThanRerank == <<syncVars, memVars, queryVars>>
otherThanMem == <<syncVars, rerankVars, queryVars>>

vars == <<syncVars, rerankVars, memVars, queryVars>>

(***************************************************************************)
(* search.py: the manifest helpers.                                        *)
(***************************************************************************)
\* The mapping relative_path -> signature of the supported files, built in
\* sorted order.
_collect_file_signatures(d) ==
    [p \in {q \in DOMAIN d : suffix_lower(suffix(q)) \in SUPPORTED_EXTENSIONS} |-> d[p]]

\* json.dumps({"files": files}): the entries of `files` in insertion order,
\* which for the mapping _collect_file_signatures builds is the sorted order.
json_dumps(files) ==
    LET keep(p) == p \in DOMAIN files
        keys == SelectSeq(SortedPaths, keep)
    IN  [i \in 1..Len(keys) |-> [path |-> keys[i], sig |-> files[keys[i]]]]

\* json.loads(...).get("files"): the mapping the text holds
json_loads(text) ==
    [p \in {text[i].path : i \in 1..Len(text)} |->
        (CHOOSE e \in Range(text) : e.path = p).sig]

EmptyDict == [p \in {} |-> 0]

_load_manifest(file) ==
    IF ~file.exists THEN EmptyDict ELSE json_loads(file.data)

\* the manifest file after _save_manifest(manifest_file, files)
_save_manifest(files) == File(json_dumps(files))

(***************************************************************************)
(* data_loader.py.  What a file's loader returns is the environment's: the *)
(* page_content of each document it yields.                                *)
(***************************************************************************)
PageContents == {"", "some text"}

\* What _load_single_file can return for file p with stat sig.  A PDF: no
\* document (unreadable, or no text by any strategy), or the pages of a
\* loader that found text on some page.  A text file: no document (the
\* loader raised), or one document with the content of the file, which is
\* empty for a file of size 0.
LoaderYields(p, sig) ==
    IF suffix_lower(suffix(p)) = ".pdf"
    THEN {c \in UNION {[1..n -> PageContents] : n \in 0..MaxDocsPerFile} :
            c = <<>> \/ \E i \in 1..Len(c) : c[i] # ""}
    ELSE {<<>>, <<IF sig.size = 0 THEN "" ELSE "some text">>}

\* what the loaders return for the files `paths` of directory d
Contents(paths, d) ==
    {content \in [paths -> UNION {LoaderYields(p, d[p]) : p \in paths}] :
        \A p \in paths : content[p] \in LoaderYields(p, d[p])}

\* the documents one file loads to; an unsupported suffix loads to nothing
_load_single_file(p, content) ==
    IF suffix_lower(suffix(p)) \in SUPPORTED_EXTENSIONS
    THEN [i \in 1..Len(content[p]) |-> [source |-> p, page |-> i, text |-> content[p][i]]]
    ELSE <<>>

\* paths: a set of relative paths; d: the directory (for exists/is_file)
load_documents_from_paths(paths, d, content) ==
    LET ok(p) == p \in paths /\ p \in DOMAIN d
                    /\ suffix_lower(suffix(p)) \in SUPPORTED_EXTENSIONS
        normalized_paths == SelectSeq(SortedPaths, ok)
    IN  Concat([i \in 1..Len(normalized_paths) |->
                    _load_single_file(normalized_paths[i], content)])

load_all_documents(d, content) ==
    LET all_files == {p \in DOMAIN d : suffix_lower(suffix(p)) \in SUPPORTED_EXTENSIONS}
    IN  load_documents_from_paths(all_files, d, content)

(***************************************************************************)
(* FaissVectorStore, from its contract: build_from_documents replaces all  *)
(* content and persists it; load restores the persisted state.             *)
(***************************************************************************)
\* the metadata rows the embedding pipeline makes of documents (one chunk each)
ChunksOf(docs) == docs

\* the store's metadata after build_from_documents(docs) on a store holding `old`
build_from_documents(old, docs) == ChunksOf(docs)

\* the store's metadata after load()
vs_load(files) == IF files.exists THEN files.data ELSE <<>>

(***************************************************************************)
(* RAGSearch.__init__: the branch the synchronisation takes.               *)
(***************************************************************************)
added_files(current_files, saved_files) ==
    DOMAIN current_files \ DOMAIN saved_files

removed_files(current_files, saved_files) ==
    DOMAIN saved_files \ DOMAIN current_files

\* a comparison of the sizes alone
changed_files_size_only(current_files, saved_files) ==
    {f \in DOMAIN current_files \cap DOMAIN saved_files :
        current_files[f].size # saved_files[f].size}

changed_files(current_files, saved_files) ==
    {f \in DOMAIN current_files \cap DOMAIN saved_files :
        current_files[f] # saved_files[f]}

\* the condition with the test of the manifest inverted
MustRebuild_inverted(rebuild_index, index_exists, saved_files) ==
    rebuild_index \/ ~index_exists \/ DOMAIN saved_files # {}

\* line 75: the first full-rebuild condition
MustRebuild(rebuild_index, index_exists, saved_files) ==
    rebuild_index \/ ~index_exists \/ DOMAIN saved_files = {}

\* the branch __init__ takes
Strategy(rebuild_index, index_exists, current_files, saved_files) ==
    IF MustRebuild(rebuild_index, index_exists, saved_files) THEN "full"
    ELSE IF removed_files(current_files, saved_files) # {}
            \/ changed_files(current_files, saved_files) # {} THEN "full"
    ELSE IF added_files(current_files, saved_files) # {} THEN "incremental"
    ELSE "noop"

NoRun ==
    [strategy |-> "none", rebuild_index |-> FALSE, index_exists |-> FALSE,
     manifest_before |-> Absent,
     old_count |-> 0, new_docs |-> 0, loaded |-> {}, raised |-> FALSE,
     retry |-> {}, empty |-> {}, skipped |-> {}]

\* the files whose loaders __init__ runs on the branch it takes
FilesToLoad(strategy, current_files, saved_files) ==
    CASE strategy = "full" -> DOMAIN current_files
      [] strategy = "incremental" -> added_files(current_files, saved_files)
      [] strategy = "noop" -> {}

(***************************************************************************)
(* Text.  A query is a sequence of one-character strings, so that          *)
(* str.lower and the substring test `token in lowered` are computed.       *)
(***************************************************************************)
UpperCase == <<"A", "B", "C", "D", "E", "F", "G", "H", "I", "J", "K", "L", "M", "N", "O", "P", "Q", "R", "S", "T", "U", "V", "W", "X", "Y", "Z">>
LowerCase == <<"a", "b", "c", "d", "e", "f", "g", "h", "i", "j", "k", "l", "m", "n", "o", "p", "q", "r", "s", "t", "u", "v", "w", "x", "y", "z">>

char_lower(c) ==
    IF \E i \in 1..Len(UpperCase) : UpperCase[i] = c
    THEN LowerCase[CHOOSE i \in 1..Len(UpperCase) : UpperCase[i] = c]
    ELSE c

\* str.lower
str_lower(str) == [i \in 1..Len(str) |-> char_lower(str[i])]

\* `t in str` for strings
IsSubstring(t, str) ==
    \E i \in 0..(Len(str) - Len(t)) : \A j \in 1..Len(t) : str[i + j] = t[j]

\* "copyofexam" in source.lower(), for the sources of the model
has_copyofexam(source) == source = "CopyOfExam/a.pdf"

(***************************************************************************)
(* RAGSearch._analyze_source_distribution, _is_exam_query, _adapt_results. *)
(***************************************************************************)
\* source_stats, with the ratio kept as the pair of its counts
_analyze_source_distribution(metadata_rows) ==
    LET copy_rows == SelectSeq(metadata_rows, LAMBDA row : has_copyofexam(row.source))
    IN  [total_chunks |-> Len(metadata_rows), copyofexam_chunks |-> Len(copy_rows)]

exam_tokens ==
    << <<"e", "x", "a", "m">>,
       <<"q", "u", "e", "s", "t", "i", "o", "n">>,
       <<"p", "a", "p", "e", "r">>,
       <<"g", "i", "v", "e", " ", "m", "e">>,
       <<"t", "h", "e", "o", "r", "y", " ", "o", "f", " ", "c", "o", "m", "p", "u", "t", "a", "t", "i", "o", "n">>,
       <<"t", "o", "c">>,
       <<"s", "h", "o", "r", "t", " ", "n", "o", "t", "e">>,
       <<"2", " ", "m", "a", "r", "k">>,
       <<"5", " ", "m", "a", "r", "k">>,
       <<"8", " ", "m", "a", "r", "k">>,
       <<"w", "r", "i", "t", "e">> >>

_is_exam_query(query) ==
    LET lowered == str_lower(query)
    IN  \E i \in 1..Len(exam_tokens) : IsSubstring(exam_tokens[i], lowered)

\* the comparison that lets the threshold itself pass
RatioBelowThreshold_inclusive(stats) ==
    IF stats.total_chunks = 0 THEN TRUE
    ELSE 100 * stats.copyofexam_chunks <= 30 * stats.total_chunks

\* copy_ratio < 0.30, copy_ratio being copy/total, or 0.0 for an empty index
RatioBelowThreshold(stats) ==
    IF stats.total_chunks = 0 THEN TRUE
    ELSE 100 * stats.copyofexam_chunks < 30 * stats.total_chunks

should_boost_copy(query, stats) ==
    _is_exam_query(query) /\ RatioBelowThreshold(stats)

\* a score that grows with the rank
rank_score_growing(rank, boosted) ==
    [num |-> 20 * (1 + rank) + (IF boosted THEN 11 ELSE 0), den |-> 20]

\* rank_score = 1/(1+rank), plus 0.55 = 11/20 for a boosted row, as a fraction
rank_score(rank, boosted) ==
    [num |-> 20 + (IF boosted THEN 11 * (1 + rank) ELSE 0), den |-> 20 * (1 + rank)]

ScoreLess(a, b) == a.num * b.den < b.num * a.den

\* list.sort(key=score, reverse=True): descending and stable; `item` goes
\* behind every item whose score is not smaller
InsertDesc(sorted, item) ==
    LET smaller == {i \in 1..Len(sorted) : ScoreLess(sorted[i].score, item.score)}
        pos == IF smaller = {} THEN Len(sorted) + 1
               ELSE CHOOSE i \in smaller : \A j \in smaller : i <= j
    IN  SubSeq(sorted, 1, pos - 1) \o <<item>> \o SubSeq(sorted, pos, Len(sorted))

RECURSIVE SortDesc(_)
SortDesc(scored) ==
    IF scored = <<>> THEN <<>>
    ELSE InsertDesc(SortDesc(SubSeq(scored, 1, Len(scored) - 1)), scored[Len(scored)])

\* the rows in the order of their scores (lines 172-182)
Rerank(results, boost) ==
    LET scored == [i \in 1..Len(results) |->
                      [score |-> rank_score(i - 1,
                                     boost /\ has_copyofexam(results[i].metadata.source)),
                       row |-> results[i]]]
        sorted == SortDesc(scored)
    IN  [i \in 1..Len(sorted) |-> sorted[i].row]

\* line 187 without the floor of 2
min_copy_needed_no_floor(top_k) == top_k \div 2

\* line 187
min_copy_needed(top_k) == Max2(2, top_k \div 2)

RECURSIVE CopyLoop(_, _, _, _)
\* lines 191-198: take target rows, one per result index, until `need` are taken
CopyLoop(reranked, i, sel, need) ==
    IF i > Len(reranked) THEN sel
    ELSE LET row == reranked[i]
             take == has_copyofexam(row.metadata.source)
                        /\ row.index \notin sel.indexes
             sel2 == IF take
                     THEN [selected |-> Append(sel.selected, row),
                           indexes |-> sel.indexes \cup {row.index}]
                     ELSE sel
         IN  IF Len(sel2.selected) >= need THEN sel2
             ELSE CopyLoop(reranked, i + 1, sel2, need)

RECURSIVE FillLoop(_, _, _, _)
\* lines 200-207: fill with the rows not yet taken, until top_k are selected
FillLoop(reranked, i, sel, top_k) ==
    IF i > Len(reranked) THEN sel
    ELSE LET row == reranked[i]
         IN  IF row.index \in sel.indexes THEN FillLoop(reranked, i + 1, sel, top_k)
             ELSE LET sel2 == [selected |-> Append(sel.selected, row),
                               indexes |-> sel.indexes \cup {row.index}]
                  IN  IF Len(sel2.selected) >= top_k THEN sel2
                      ELSE FillLoop(reranked, i + 1, sel2, top_k)

\* reranked[:top_k] for top_k >= 0
Slice(seq, top_k) == SubSeq(seq, 1, Min2(top_k, Len(seq)))

_adapt_results(results, query, top_k, stats) ==
    IF results = <<>> THEN <<>>
    ELSE LET boost == should_boost_copy(query, stats)
             reranked == Rerank(results, boost)
         IN  IF ~boost THEN Slice(reranked, top_k)
             ELSE LET copies == CopyLoop(reranked, 1, [selected |-> <<>>, indexes |-> {}],
                                         min_copy_needed(top_k))
                  IN  FillLoop(reranked, 1, copies, top_k).selected

(***************************************************************************)
(* The reranker as a function of its inputs: a candidate list, a query, a  *)
(* top_k and the source statistics of the index.                           *)
(***************************************************************************)
RerankSources == {"CopyOfExam/a.pdf", "notes/b.txt"}

Row(i, source) ==
    [index |-> i, metadata |-> [source |-> source, page |-> 1, text |-> "some text"]]

Rows == {Row(i, source) : i \in 0..MaxIndex, source \in RerankSources}

CandidateLists == UNION {[1..n -> Rows] : n \in 0..MaxCands}

\* "Give me TOC" (a targeted query) and "hello"
Queries == { <<"G", "i", "v", "e", " ", "m", "e", " ", "T", "O", "C">>,
             <<"h", "e", "l", "l", "o">> }

\* an index with 2 of 10 chunks of the target category, one with 3 of 10, and
\* an empty index
StatsSamples ==
    { [total_chunks |-> 10, copyofexam_chunks |-> 2],
      [total_chunks |-> 10, copyofexam_chunks |-> 3],
      [total_chunks |-> 0, copyofexam_chunks |-> 0] }

RerankIdle ==
    [results |-> <<>>, query |-> <<>>, top_k |-> 0,
     stats |-> [total_chunks |-> 0, copyofexam_chunks |-> 0],
     done |-> FALSE, out |-> <<>>]

RerankInit ==
    \E results \in CandidateLists, query \in Queries, top_k \in 0..MaxTopK,
       stats \in StatsSamples :
        rr = [results |-> results, query |-> query, top_k |-> top_k,
              stats |-> stats, done |-> FALSE, out |-> <<>>]

AdaptResults ==
    /\ ~rr.done
    /\ rr' = [rr EXCEPT !.done = TRUE,
                        !.out = _adapt_results(rr.results, rr.query, rr.top_k, rr.stats)]
    /\ UNCHANGED otherThanRerank

(***************************************************************************)
(* memory_store.py: ConversationMemoryStore.                               *)
(*                                                                         *)
(* A vector is represented by the text it encodes; the distances the       *)
(* embedding model induces between different texts are not known, and a    *)
(* search draws them.                                                      *)
(***************************************************************************)
Whitespace == {" ", "\n", "\t"}

RECURSIVE lstrip(_)
lstrip(str) ==
    IF str # <<>> /\ Head(str) \in Whitespace THEN lstrip(Tail(str)) ELSE str

RECURSIVE rstrip(_)
rstrip(str) ==
    IF str # <<>> /\ str[Len(str)] \in Whitespace
    THEN rstrip(SubSeq(str, 1, Len(str) - 1)) ELSE str

\* str.strip
strip(str) == rstrip(lstrip(str))

\* f"Question: {question}\nAnswer: {answer}"
memory_text(question, answer) ==
    <<"Q", "u", "e", "s", "t", "i", "o", "n", ":", " ">> \o question \o <<"\n", "A", "n", "s", "w", "e", "r", ":", " ">> \o answer

\* self.model.encode([text])
encode(text) == [encodes |-> text]

NoIndex == [exists |-> FALSE, vectors |-> <<>>]

\* the store a constructor leaves: both files there, or an empty store
_load_if_exists(index_file, metadata_file) ==
    IF index_file.exists /\ metadata_file.exists
    THEN [index |-> [exists |-> TRUE, vectors |-> index_file.data],
          metadata |-> metadata_file.data]
    ELSE [index |-> NoIndex, metadata |-> <<>>]

\* _save that forgets the metadata file
_save_index_only(index, metadata, index_file, metadata_file) ==
    IF ~index.exists
    THEN [index_file |-> index_file, metadata_file |-> metadata_file]
    ELSE [index_file |-> File(index.vectors), metadata_file |-> metadata_file]

\* the two files after _save
_save(index, metadata, index_file, metadata_file) ==
    IF ~index.exists
    THEN [index_file |-> index_file, metadata_file |-> metadata_file]
    ELSE [index_file |-> File(index.vectors), metadata_file |-> File(metadata)]

\* the entry with question and answer in each other's place
memory_entry_swapped(question, answer, now) ==
    [text |-> memory_text(question, answer), question |-> answer,
     answer |-> question, timestamp_utc |-> now]

\* lines 60-67: the MemoryEntry appended
memory_entry(question, answer, now) ==
    [text |-> memory_text(question, answer), question |-> question,
     answer |-> answer, timestamp_utc |-> now]

\* the entry put in front of the others
append_entry_front(metadata, entry) == <<entry>> \o metadata

\* line 60: self.metadata.append(...)
append_entry(metadata, entry) == Append(metadata, entry)

\* the test on the strings as given
IsNoOpAdd_untrimmed(question, answer) ==
    question = <<>> \/ answer = <<>>

\* add_interaction is a no-op for these arguments (lines 48-51)
IsNoOpAdd(question, answer) ==
    strip(question) = <<>> \/ strip(answer) = <<>>

\* The store and its files after add_interaction(question, answer) ran to
\* `outcome`: "ok", or the step that raised ("encode", "write_index",
\* "write_metadata").
add_interaction(index, metadata, index_file, metadata_file, question, answer, now, outcome) ==
    LET q == strip(question)
        a == strip(answer)
        same == [index |-> index, metadata |-> metadata, index_file |-> index_file,
                 metadata_file |-> metadata_file, raised |-> FALSE, entries |-> <<>>]
    IN  IF IsNoOpAdd(question, answer) THEN same
        ELSE IF outcome = "encode" THEN [same EXCEPT !.raised = TRUE]
        ELSE LET vector == encode(memory_text(q, a))
                 index1 == IF index.exists THEN index ELSE [exists |-> TRUE, vectors |-> <<>>]
                 index2 == [index1 EXCEPT !.vectors = Append(@, vector)]
                 entry == memory_entry(q, a, now)
                 metadata2 == append_entry(metadata, entry)
                 saved == _save(index2, metadata2, index_file, metadata_file)
                 mem == [same EXCEPT !.index = index2, !.metadata = metadata2,
                                     !.entries = <<entry>>]
             IN  CASE outcome = "write_index" -> [mem EXCEPT !.raised = TRUE]
                   [] outcome = "write_metadata" ->
                        [mem EXCEPT !.raised = TRUE, !.index_file = saved.index_file]
                   [] outcome = "ok" ->
                        [mem EXCEPT !.index_file = saved.index_file,
                                    !.metadata_file = saved.metadata_file]

\* index.search(vector, k): the k stored vectors nearest to `vector` with their
\* distances, nearest first (equal distances in the order stored), padded
\* with the index -1 when fewer than k are stored.  dist gives each stored
\* position its distance, as the rank of that distance among the distances
\* that occur (0 the smallest); vectors of one text are at one distance, and
\* at the smallest distance of themselves.
DistanceChoices(vectors, vector) ==
    {d \in [1..Len(vectors) -> 0..Max2(Len(vectors) - 1, 0)] :
        /\ \A i, j \in 1..Len(vectors) : vectors[i] = vectors[j] => d[i] = d[j]
        /\ \A i \in 1..Len(vectors) : vectors[i] = vector => d[i] = 0
        /\ \A i \in 1..Len(vectors) :
              d[i] = 0 \/ \E j \in 1..Len(vectors) : d[j] = d[i] - 1}

RECURSIVE NearestFirst(_, _)
\* the positions of S by ascending distance, then position
NearestFirst(S, dist) ==
    IF S = {} THEN <<>>
    ELSE LET best == CHOOSE i \in S :
                        \A j \in S : dist[i] < dist[j] \/ (dist[i] = dist[j] /\ i <= j)
         IN  <<best>> \o NearestFirst(S \ {best}, dist)

index_search(vectors, k, dist) ==
    LET order == NearestFirst(1..Len(vectors), dist)
    IN  [n \in 1..k |->
            IF n <= Len(order) THEN [idx |-> order[n] - 1, dist |-> dist[order[n]]]
            ELSE [idx |-> -1, dist |-> -1]]

\* the test without its two conditions
IsEmptyStore_never(index, metadata) == FALSE

\* line 72: self.index is None or not self.metadata
IsEmptyStore(index, metadata) == ~index.exists \/ metadata = <<>>

\* query raises: past the test of line 72, the embedding of the query text
\* raises (outcome "encode"), or there is no index to search
query_raises(index, metadata, outcome) ==
    ~IsEmptyStore(index, metadata) /\ (outcome # "ok" \/ ~index.exists)

\* ConversationMemoryStore.query
memory_query(index, metadata, query_text, top_k, dist) ==
    IF IsEmptyStore(index, metadata) THEN <<>>
    ELSE LET safe_top_k == Max2(1, Min2(top_k, Len(metadata)))
             found == index_search(index.vectors, safe_top_k, dist)
             valid == SelectSeq(found, LAMBDA f : ~(f.idx < 0 \/ f.idx >= Len(metadata)))
         IN  [n \in 1..Len(valid) |->
                [index |-> valid[n].idx, distance |-> valid[n].dist,
                 metadata |-> metadata[valid[n].idx + 1]]]

\* a call of search_and_summarize that has not begun
NoCall ==
    [status |-> "none", query |-> <<>>, top_k |-> 0, knowledge_results |-> <<>>,
     context |-> <<>>, memory_context |-> <<>>, memory_before |-> <<>>,
     llm_invocations |-> 0, answered |-> FALSE, record_raised |-> FALSE,
     answer |-> <<>>, ret |-> <<>>]

(***************************************************************************)
(* RAGSearch.__init__: the construction of the two stores, the             *)
(* synchronisation of the index with the data directory, the credential    *)
(* check and the source statistics.                                        *)
(***************************************************************************)
NoStats == [total_chunks |-> 0, copyofexam_chunks |-> 0]

\* the test that is always true
ShouldPersistIncrement_always(new_docs) == TRUE

\* line 107: `if new_docs:`
ShouldPersistIncrement(new_docs) == new_docs # <<>>

\* the files a construction found added and got no content from (they are
\* left for the next construction), else none
LeftForRetry(run) ==
    IF run.strategy = "incremental" /\ run.new_docs = 0 THEN run.loaded ELSE {}

\* the files of `paths` whose loader returned no document
YieldedNothing(paths, content) == {p \in paths : content[p] = <<>>}

\* the snapshot without the added files that gave no document
ManifestAfterIncrement_yielding_only(current_files, saved_files, new_docs) ==
    [p \in {q \in DOMAIN current_files :
                q \in DOMAIN saved_files \/ \E i \in 1..Len(new_docs) : new_docs[i].source = q}
        |-> current_files[p]]

\* line 110: the signatures _save_manifest is given after an increment that
\* loaded new_docs
ManifestAfterIncrement(current_files, saved_files, new_docs) == current_files

\* the added files a construction recorded in the manifest although they gave
\* no document (an increment that got documents from other files), kept for
\* as long as the constructions that follow find nothing to do
RecordedUnloaded(run) ==
    CASE run.strategy = "incremental" /\ run.new_docs > 0 -> run.empty
      [] run.strategy = "noop" -> run.skipped
      [] OTHER -> {}

\* RAGSearch(rebuild_index=...), run while GROQ_API_KEY is set (key) or not;
\* content: what the loaders return for the files loaded
Construct(rebuild_index, key) ==
    /\ rag = "none"
    /\ last.strategy = "none"
    /\ LET current_files == _collect_file_signatures(dir)
           saved_files == _load_manifest(manifestFile)
           index_exists == indexFiles.exists
           strategy == Strategy(rebuild_index, index_exists, current_files, saved_files)
           obs == [NoRun EXCEPT !.strategy = strategy,
                                !.rebuild_index = rebuild_index,
                                !.index_exists = index_exists,
                                !.manifest_before = manifestFile,
                                !.raised = ~key,
                                !.retry = last.retry,
                                !.skipped = last.skipped]
       IN  /\ \E content \in Contents(FilesToLoad(strategy, current_files, saved_files), dir) :
              CASE strategy = "full" ->
                    LET docs == load_all_documents(dir, content)
                        built == build_from_documents(<<>>, docs)
                    IN  /\ vsMetadata' = built
                        /\ indexFiles' = File(built)
                        /\ manifestFile' = _save_manifest(current_files)
                        /\ last' = [obs EXCEPT !.new_docs = Len(docs),
                                               !.loaded = DOMAIN current_files]
              [] strategy = "incremental" ->
                    LET loaded == vs_load(indexFiles)
                        new_paths == added_files(current_files, saved_files)
                        new_docs == load_documents_from_paths(new_paths, dir, content)
                        built == build_from_documents(loaded, new_docs)
                    IN  /\ last' = [obs EXCEPT !.old_count = Len(loaded),
                                               !.new_docs = Len(new_docs),
                                               !.loaded = new_paths,
                                               !.empty = YieldedNothing(new_paths, content)]
                        /\ IF ShouldPersistIncrement(new_docs)
                           THEN /\ vsMetadata' = built
                                /\ indexFiles' = File(built)
                                /\ manifestFile' = _save_manifest(
                                        ManifestAfterIncrement(current_files, saved_files, new_docs))
                           ELSE /\ vsMetadata' = loaded
                                /\ UNCHANGED <<indexFiles, manifestFile>>
              [] strategy = "noop" ->
                    /\ vsMetadata' = vs_load(indexFiles)
                    /\ last' = [obs EXCEPT !.old_count = Len(vs_load(indexFiles))]
                    /\ UNCHANGED <<indexFiles, manifestFile>>
           /\ rag' = IF key THEN "ready" ELSE "none"
    /\ LET store == _load_if_exists(memIndexFile, memMetadataFile)
       IN  /\ memIndex' = IF key THEN store.index ELSE NoIndex
           /\ memMetadata' = IF key THEN store.metadata ELSE <<>>
    /\ source_stats' = IF key THEN _analyze_source_distribution(vsMetadata')
                               ELSE source_stats
    /\ UNCHANGED <<dir, memIndexFile, memMetadataFile, clock, appended, memObs, pc, call>>
    /\ UNCHANGED rerankVars

(***************************************************************************)
(* The environment of the synchronisation: the user's edits of the data    *)
(* directory and of the store directory, and the end of the process.       *)
(***************************************************************************)
\* a file is created, or overwritten with a different stat
WriteFile(p, sig) ==
    /\ rag = "none"
    /\ IF p \in DOMAIN dir THEN dir[p] # sig ELSE TRUE
    /\ dir' = [q \in DOMAIN dir \cup {p} |-> IF q = p THEN sig ELSE dir[q]]
    /\ last' = NoRun
    /\ vsMetadata' = <<>>
    /\ UNCHANGED <<manifestFile, indexFiles, rag>>
    /\ UNCHANGED otherThanSync

DeleteFile(p) ==
    /\ rag = "none"
    /\ p \in DOMAIN dir
    /\ dir' = [q \in DOMAIN dir \ {p} |-> dir[q]]
    /\ last' = NoRun
    /\ vsMetadata' = <<>>
    /\ UNCHANGED <<manifestFile, indexFiles, rag>>
    /\ UNCHANGED otherThanSync

\* faiss.index / metadata.pkl are removed from the store directory
RemoveIndexFiles ==
    /\ rag = "none"
    /\ indexFiles.exists
    /\ indexFiles' = Absent
    /\ last' = NoRun
    /\ vsMetadata' = <<>>
    /\ UNCHANGED <<dir, manifestFile, rag>>
    /\ UNCHANGED otherThanSync

\* the process ends (after a construction that raised, or with its object,
\* whatever it is doing): what is in memory is gone
Exit ==
    /\ last.strategy # "none"
    /\ rag' = "none"
    /\ vsMetadata' = <<>>
    /\ last' = [NoRun EXCEPT !.retry = LeftForRetry(last),
                             !.skipped = RecordedUnloaded(last)]
    /\ memIndex' = NoIndex
    /\ memMetadata' = <<>>
    /\ source_stats' = NoStats
    /\ pc' = "idle"
    /\ call' = NoCall
    /\ UNCHANGED <<dir, manifestFile, indexFiles>>
    /\ UNCHANGED <<memIndexFile, memMetadataFile, clock, appended, memObs>>
    /\ UNCHANGED rerankVars

SyncInit ==
    /\ dir = EmptyDict
    /\ manifestFile = Absent
    /\ indexFiles = Absent
    /\ vsMetadata = <<>>
    /\ rag = "none"
    /\ last = NoRun

SyncNext ==
    \/ \E rebuild_index \in BOOLEAN, key \in BOOLEAN : Construct(rebuild_index, key)
    \/ \E p \in AllPaths : \E sig \in StatsOf(p) : WriteFile(p, sig)
    \/ \E p \in AllPaths : DeleteFile(p)
    \/ RemoveIndexFiles
    \/ Exit

(***************************************************************************)
(* Calls on a ConversationMemoryStore.                                     *)
(***************************************************************************)
NoAdd == [valid |-> FALSE, question |-> <<>>, answer |-> <<>>, count_before |-> 0]

MemNoObs ==
    [op |-> "none", question |-> <<>>, answer |-> <<>>, raised |-> FALSE,
     top_k |-> 0, results |-> <<>>, prev_add |-> NoAdd]

\* the questions and answers of the calls: "", " hi", "yo" and "", "yes", "no\n"
MemQuestions == { <<>>, <<" ", "h", "i">>, <<"y", "o">> }
MemAnswers == { <<>>, <<"y", "e", "s">>, <<"n", "o", "\n">> }

MemInit ==
    /\ memIndex = NoIndex
    /\ memMetadata = <<>>
    /\ memIndexFile = Absent
    /\ memMetadataFile = Absent
    /\ clock = 0
    /\ appended = <<>>
    /\ memObs = MemNoObs

\* the store's variables after add_interaction ran to `outcome`
StoreAfterAdd(question, answer, outcome) ==
    LET r == add_interaction(memIndex, memMetadata, memIndexFile, memMetadataFile,
                             question, answer, clock, outcome)
    IN  /\ memIndex' = r.index
        /\ memMetadata' = r.metadata
        /\ memIndexFile' = r.index_file
        /\ memMetadataFile' = r.metadata_file
        /\ appended' = appended \o r.entries
        /\ clock' = clock + Len(r.entries)

AddRaises(question, answer, outcome) ==
    ~IsNoOpAdd(question, answer) /\ outcome # "ok"

\* memory_store.add_interaction(question, answer)
MemAdd(question, answer, outcome) ==
    /\ Len(memMetadata) < MaxEntries
    /\ clock < MaxTime
    /\ StoreAfterAdd(question, answer, outcome)
    /\ memObs' = [MemNoObs EXCEPT !.op = "add", !.question = question,
                                  !.answer = answer,
                                  !.raised = AddRaises(question, answer, outcome),
                                  !.prev_add = [valid |-> TRUE, question |-> question,
                                                answer |-> answer,
                                                count_before |-> Len(memMetadata)]]
    /\ UNCHANGED otherThanMem

\* memory_store.query(query_text, top_k), run to `outcome`: "ok", or "encode"
\* when the embedding of the query text raises
MemQuery(query_text, top_k, outcome) ==
    /\ \E dist \in DistanceChoices(memIndex.vectors, encode(query_text)) :
          memObs' = [MemNoObs EXCEPT
                        !.op = "query", !.question = query_text, !.top_k = top_k,
                        !.raised = query_raises(memIndex, memMetadata, outcome),
                        !.results = IF query_raises(memIndex, memMetadata, outcome)
                                    THEN <<>>
                                    ELSE memory_query(memIndex, memMetadata, query_text,
                                                      top_k, dist),
                        !.prev_add = IF memObs.op = "add" /\ ~memObs.raised
                                     THEN memObs.prev_add ELSE NoAdd]
    /\ UNCHANGED <<memIndex, memMetadata, memIndexFile, memMetadataFile, clock, appended>>
    /\ UNCHANGED otherThanMem

\* ConversationMemoryStore(persist_dir): a new store on the same directory
MemReload ==
    /\ LET loaded == _load_if_exists(memIndexFile, memMetadataFile)
       IN  /\ memIndex' = loaded.index
           /\ memMetadata' = loaded.metadata
    /\ memObs' = [MemNoObs EXCEPT !.op = "reload"]
    /\ UNCHANGED <<memIndexFile, memMetadataFile, clock, appended>>
    /\ UNCHANGED otherThanMem

MemNext ==
    \/ \E question \in MemQuestions, answer \in MemAnswers : MemAdd(question, answer, "ok")
    \/ \E query_text \in MemQuestions, top_k \in 0..MaxMemTopK :
          MemQuery(query_text, top_k, "ok")
    \/ MemReload

\* the outcomes of add_interaction and of query
AddOutcomes == {"ok", "encode", "write_index", "write_metadata"}
QueryOutcomes == {"ok", "encode"}

\* the questions and answers of the calls that may fail: "", "yo" and " ", "no\n"
FaultQuestions == { <<>>, <<"y", "o">> }
FaultAnswers == { <<" ">>, <<"n", "o", "\n">> }

\* the calls with the failures of the embedding and of the two writes; the
\* process that met one may go on, or end and be followed by a new store on
\* the directory (MemReload)
MemFaultsNext ==
    \/ \E question \in FaultQuestions, answer \in FaultAnswers, outcome \in AddOutcomes :
          MemAdd(question, answer, outcome)
    \/ \E query_text \in FaultQuestions, top_k \in 0..MaxMemTopK, outcome \in QueryOutcomes :
          MemQuery(query_text, top_k, outcome)
    \/ MemReload

(***************************************************************************)
(* RAGSearch.search_and_summarize.                                         *)
(***************************************************************************)
\* FaissVectorStore.query(text, top_k), from its contract: RetrievalResults
\* for stored rows, at most top_k of them, in the order of their distances
\* to the text, which the embedding decides
vs_query(metadata, top_k) ==
    IF metadata = <<>> THEN {<<>>}
    ELSE {[n \in 1..Min2(top_k, Len(metadata)) |->
              [index |-> order[n] - 1, metadata |-> metadata[order[n]]]] :
            order \in Permutations(1..Len(metadata))}

\* line 216
candidate_k(top_k) == Max2(top_k * 6, 30)

\* f"[knowledge source: {source}, page: {page}]\n{text}"
knowledge_block(metadata) ==
    [label |-> "knowledge source", source |-> metadata.source,
     page |-> metadata.page, text |-> metadata.text]

\* the loop without the test of the text
context_blocks_keep_empty(knowledge_results) ==
    [i \in 1..Len(knowledge_results) |-> knowledge_block(knowledge_results[i].metadata)]

\* lines 222-230: one block for each result that carries text
context_blocks(knowledge_results) ==
    LET kept == SelectSeq(knowledge_results, LAMBDA r : r.metadata.text # "")
    IN  [i \in 1..Len(kept) |-> knowledge_block(kept[i].metadata)]

\* f"[conversation memory @ {memory_time}]\n{memory_text}"
memory_block(metadata) ==
    [label |-> "conversation memory", source |-> "", page |-> metadata.timestamp_utc,
     text |-> metadata.text]

\* lines 232-239
memory_blocks(memory_results) ==
    LET kept == SelectSeq(memory_results, LAMBDA r : r.metadata.text # <<>>)
    IN  [i \in 1..Len(kept) |-> memory_block(kept[i].metadata)]

Separator == [label |-> "\n\n", source |-> "", page |-> 0, text |-> ""]

\* "\n\n".join(blocks): the blocks with a separator between two of them; the
\* empty string for no block
join(blocks) ==
    IF blocks = <<>> THEN <<>>
    ELSE [i \in 1..(2 * Len(blocks) - 1) |->
            IF i % 2 = 1 THEN blocks[(i + 1) \div 2] ELSE Separator]

\* "No relevant documents found."
NoDocs ==
    <<"N", "o", " ", "r", "e", "l", "e", "v", "a", "n", "t", " ", "d", "o", "c", "u", "m", "e", "n", "t", "s", " ", "f", "o", "u", "n", "d", ".">>

\* the test that never holds
ShortCircuits_never(context) == FALSE

\* line 244: `if not context:`
ShortCircuits(context) == context = <<>>

\* lines 216-245: retrieval, the two contexts and the short circuit.  The
\* call goes on to the language model when there is knowledge context.
Search(query, top_k, memory_top_k) ==
    /\ rag = "ready"
    /\ pc = "idle"
    /\ Len(memMetadata) < MaxEntries
    /\ clock < MaxTime
    /\ \E candidates \in vs_query(vsMetadata, candidate_k(top_k)) :
       \E dist \in DistanceChoices(memIndex.vectors, encode(query)) :
          LET knowledge_results == _adapt_results(candidates, query, top_k, source_stats)
              memory_results == memory_query(memIndex, memMetadata, query,
                                             memory_top_k, dist)
              context == join(context_blocks(knowledge_results))
              memory_context == join(memory_blocks(memory_results))
              started == [NoCall EXCEPT !.status = "running", !.query = query,
                                        !.top_k = top_k,
                                        !.knowledge_results = knowledge_results,
                                        !.context = context,
                                        !.memory_context = memory_context,
                                        !.memory_before = memMetadata]
          IN  IF ShortCircuits(context)
              THEN /\ call' = [started EXCEPT !.status = "returned", !.ret = NoDocs]
                   /\ pc' = "idle"
              ELSE /\ call' = started
                   /\ pc' = "llm"
    /\ UNCHANGED <<syncVars, rerankVars, memVars, source_stats>>

\* the model asked, and the call left where it asks the model
InvokeLLM_again(answer, ok) ==
    /\ pc = "llm"
    /\ call' = [call EXCEPT !.llm_invocations = @ + 1, !.answered = ok,
                            !.answer = IF ok THEN answer ELSE @]
    /\ pc' = "llm"
    /\ UNCHANGED <<syncVars, rerankVars, memVars, source_stats>>

\* lines 270-271: self.llm.invoke([prompt]) answers, or raises (~ok)
InvokeLLM(answer, ok) ==
    /\ pc = "llm"
    /\ IF ok
       THEN /\ call' = [call EXCEPT !.llm_invocations = @ + 1, !.answered = TRUE,
                                    !.answer = answer]
            /\ pc' = "record"
       ELSE /\ call' = [call EXCEPT !.llm_invocations = @ + 1, !.status = "raised"]
            /\ pc' = "idle"
    /\ UNCHANGED <<syncVars, rerankVars, memVars, source_stats>>

\* the arguments in each other's place
turn_recorded_swapped(query, answer_text) ==
    [question |-> answer_text, answer |-> query]

\* line 273: add_interaction(question=query, answer=answer_text)
turn_recorded(query, answer_text) ==
    [question |-> query, answer |-> answer_text]

\* lines 273-274: add_interaction runs to `outcome`; what it raises leaves
\* search_and_summarize, else the answer is returned
RecordTurn(outcome) ==
    /\ pc = "record"
    /\ LET turn == turn_recorded(call.query, call.answer)
       IN  /\ StoreAfterAdd(turn.question, turn.answer, outcome)
           /\ IF AddRaises(turn.question, turn.answer, outcome)
              THEN call' = [call EXCEPT !.status = "raised", !.record_raised = TRUE]
              ELSE call' = [call EXCEPT !.status = "returned", !.ret = call.answer]
    /\ pc' = "idle"
    /\ UNCHANGED <<syncVars, rerankVars, memObs, source_stats>>

\* the queries asked: "Give me TOC", "hello" and ""
QueryTexts == Queries \cup {<<>>}

\* the answers of the language model: "", "ok"
LLMAnswers == { <<>>, <<"o", "k">> }

\* the top_k of the queries: 0, 1 and the default 5
QueryTopKs == {0, 1, 5}

\* the data directories the application is started on
QueryDirs ==
    { EmptyDict,
      [p \in {"CopyOfExam/a.pdf", "notes/b.txt"} |->
          [mtime_ns |-> 1000, size |-> IF p = "notes/b.txt" THEN 0 ELSE 120]] }

QueryInit ==
    /\ dir \in QueryDirs
    /\ manifestFile = Absent
    /\ indexFiles = Absent
    /\ vsMetadata = <<>>
    /\ rag = "none"
    /\ last = NoRun

\* the application as app.py runs it (rebuild_index when the index files are
\* missing), the queries with the default memory_top_k; nothing fails
QueryNext ==
    \/ Construct(~indexFiles.exists, TRUE)
    \/ \E query \in QueryTexts, top_k \in QueryTopKs : Search(query, top_k, 3)
    \/ \E answer \in LLMAnswers : InvokeLLM(answer, TRUE)
    \/ RecordTurn("ok")
    \/ Exit

\* the application with the failures of the language model and of the
\* memory store's embedding and writes
QueryFaultsNext ==
    \/ Construct(~indexFiles.exists, TRUE)
    \/ \E query \in QueryTexts : Search(query, 5, 3)
    \/ \E answer \in LLMAnswers, ok \in BOOLEAN : InvokeLLM(answer, ok)
    \/ \E outcome \in AddOutcomes : RecordTurn(outcome)
    \/ Exit

(***************************************************************************)
(* The specifications.                                                     *)
(***************************************************************************)
QueryIdle ==
    /\ source_stats = NoStats
    /\ pc = "idle"
    /\ call = NoCall

\* the synchronisation at construction, under edits of the directory
InitSync ==
    SyncInit /\ rr = RerankIdle /\ MemInit /\ QueryIdle

SpecSync == InitSync /\ [][SyncNext]_vars

\* the reranker applied to every input of the bounded sets
InitRerank ==
    SyncInit /\ RerankInit /\ MemInit /\ QueryIdle

SpecRerank == InitRerank /\ [][AdaptResults]_vars

\* calls on one conversation memory directory
InitMem ==
    SyncInit /\ rr = RerankIdle /\ MemInit /\ QueryIdle

SpecMem == InitMem /\ [][MemNext]_vars

\* calls on one conversation memory directory, with failures
SpecMemFaults == InitMem /\ [][MemFaultsNext]_vars

\* the application from its first start on a data directory
InitQuery ==
    QueryInit /\ rr = RerankIdle /\ MemInit /\ QueryIdle

SpecQuery == InitQuery /\ [][QueryNext]_vars

SpecQueryFaults == InitQuery /\ [][QueryFaultsNext]_vars

(***************************************************************************)
(* Claims about the synchronisation.  In the state after a construction,   *)
(* D1 is the manifest it found persisted and D2 the signatures it          *)
(* collected (the directory is not touched by the construction).           *)
(***************************************************************************)
Constructed == last.strategy # "none"
D1 == _load_manifest(last.manifest_before)
D2 == _collect_file_signatures(dir)

\* D2 removes or modifies a file of D1
RemovesOrModifies ==
    \E p \in DOMAIN D1 : IF p \in DOMAIN D2 THEN D2[p] # D1[p] ELSE TRUE

\* D2 only adds files to D1
OnlyAdds ==
    /\ DOMAIN D1 \subseteq DOMAIN D2
    /\ DOMAIN D1 # DOMAIN D2
    /\ \A p \in DOMAIN D1 : D2[p] = D1[p]

\* the construction reloaded every document, rebuilt the index from them and
\* persisted the manifest as D2
FullRebuildDone ==
    /\ last.strategy = "full"
    /\ last.loaded = DOMAIN D2
    /\ indexFiles.exists
    /\ indexFiles.data = vsMetadata
    /\ Len(vsMetadata) = last.new_docs
    /\ \A i \in 1..Len(vsMetadata) : vsMetadata[i].source \in DOMAIN D2
    /\ manifestFile.exists
    /\ _load_manifest(manifestFile) = D2

\* C1: whenever a path of the persisted manifest D1 is missing from the
\* current signatures D2 or has another signature there, the construction
\* takes the full-rebuild path (all documents reloaded, index rebuilt,
\* manifest persisted as D2), never the incremental one, also when D2 adds
\* files at the same time.
C1_RemovedOrChangedRebuilds ==
    (Constructed /\ RemovesOrModifies) => FullRebuildDone

\* a rebuild decided by the diff (second branch): a file removed while
\* another one is added
C1_Witness ==
    /\ Constructed
    /\ ~last.rebuild_index
    /\ last.index_exists
    /\ DOMAIN D1 \ DOMAIN D2 # {}
    /\ DOMAIN D2 \ DOMAIN D1 # {}
    /\ last.strategy = "full"
    /\ last.new_docs > 0

\* C2 (as claimed, read with the decision order of the controller: no forced
\* rebuild, the index exists and the manifest is not empty): when D2 only
\* adds files to D1 the construction chooses the incremental update and the
\* metadata count after it is old_count plus the chunks of the added files.
C2_IncrementalAppends ==
    (Constructed /\ ~last.raised /\ OnlyAdds /\ ~last.rebuild_index
        /\ last.index_exists /\ DOMAIN D1 # {})
    => /\ last.strategy = "incremental"
       /\ Len(vsMetadata) = last.old_count + last.new_docs

\* C3 (as claimed): whenever D1 = D2 (the manifest file being there) the
\* construction chooses the no-op and leaves the manifest file byte-identical.
C3_UnchangedIsNoop ==
    (Constructed /\ ~last.raised /\ last.manifest_before.exists /\ D1 = D2)
    => /\ last.strategy = "noop"
       /\ manifestFile = last.manifest_before

\* C3 (amended): whenever D1 = D2, the manifest is not empty, the index files
\* exist and rebuild_index is false, the construction chooses the no-op:
\* nothing is loaded, the index is the persisted one and the manifest file is
\* byte-identical.
C3_UnchangedIsNoop_Amended ==
    (Constructed /\ D1 = D2 /\ DOMAIN D1 # {} /\ last.index_exists
        /\ ~last.rebuild_index)
    => /\ last.strategy = "noop"
       /\ last.loaded = {}
       /\ last.new_docs = 0
       /\ vsMetadata = indexFiles.data
       /\ manifestFile = last.manifest_before

C3_Witness ==
    /\ Constructed
    /\ D1 = D2
    /\ Cardinality(DOMAIN D1) >= 2
    /\ last.strategy = "noop"
    /\ Len(vsMetadata) >= 1
    /\ manifestFile = last.manifest_before

(***************************************************************************)
(* Claims about the reranker.                                              *)
(***************************************************************************)
Boosting == should_boost_copy(rr.query, rr.stats)

IsCopyRow(row) == has_copyofexam(row.metadata.source)

\* the number of target-category rows of a list
CopyCount(rows) == Cardinality({i \in 1..Len(rows) : IsCopyRow(rows[i])})

\* C4: the list _adapt_results returns has at most top_k rows.
C4_AtMostTopK ==
    (rr.done /\ rr.top_k >= 1) => Len(rr.out) <= rr.top_k

\* C5: no result index appears twice in the list _adapt_results returns.
C5_NoDuplicateIndex ==
    rr.done =>
        \A i, j \in 1..Len(rr.out) : i # j => rr.out[i].index # rr.out[j].index

\* C6 (as claimed): when boosting is active the output holds at least
\* min(max(2, top_k // 2), number of target-category candidates) target rows.
C6_BoostedShare ==
    (rr.done /\ Boosting /\ rr.top_k >= 1) =>
        CopyCount(rr.out) >= Min2(Max2(2, rr.top_k \div 2), CopyCount(rr.results))

\* C6 (amended): when boosting is active the output holds at least
\* min(max(2, top_k // 2), number of distinct result indexes among the
\* target-category candidates) target rows.
C6_BoostedShare_Amended ==
    (rr.done /\ Boosting) =>
        CopyCount(rr.out) >=
            Min2(Max2(2, rr.top_k \div 2),
                 Cardinality({rr.results[i].index :
                                i \in {k \in 1..Len(rr.results) : IsCopyRow(rr.results[k])}}))

\* boosting lifts two target rows over a better-ranked other row for top_k = 6
C6_Witness ==
    /\ rr.done
    /\ Boosting
    /\ rr.top_k = 6
    /\ Len(rr.results) = 3
    /\ CopyCount(rr.results) = 2
    /\ ~IsCopyRow(rr.results[1])
    /\ CopyCount(rr.out) = 2
    /\ IsCopyRow(rr.out[1])

(***************************************************************************)
(* Claims about the conversation memory store.                             *)
(***************************************************************************)
\* the query follows an add_interaction(Q, A) that returned and asks for Q, 1
QueryAfterAdd ==
    /\ memObs.op = "query"
    /\ memObs.top_k = 1
    /\ memObs.prev_add.valid
    /\ memObs.prev_add.question = memObs.question

\* C7 (as claimed, for Q and A that are not empty and carry no surrounding
\* whitespace): in every state of the store, after add_interaction(Q, A)
\* returned, query(Q, 1) returns a result whose metadata has question == Q
\* and answer == A.
C7_QueryFindsTurn ==
    (QueryAfterAdd
        /\ memObs.prev_add.question = strip(memObs.prev_add.question)
        /\ memObs.prev_add.answer = strip(memObs.prev_add.answer)
        /\ ~IsNoOpAdd(memObs.prev_add.question, memObs.prev_add.answer)) =>
        /\ memObs.results # <<>>
        /\ memObs.results[1].metadata.question = memObs.prev_add.question
        /\ memObs.results[1].metadata.answer = memObs.prev_add.answer

\* C7 (amended): when the store held no turn before the call and Q and A are
\* not empty after trimming, query(Q, 1) after add_interaction(Q, A) returns
\* exactly one result, whose metadata has question == Q.strip() and
\* answer == A.strip().
C7_QueryFindsTurn_Amended ==
    (QueryAfterAdd /\ memObs.prev_add.count_before = 0
        /\ ~IsNoOpAdd(memObs.prev_add.question, memObs.prev_add.answer))
    => /\ Len(memObs.results) = 1
       /\ memObs.results[1].index = 0
       /\ memObs.results[1].metadata.question = strip(memObs.prev_add.question)
       /\ memObs.results[1].metadata.answer = strip(memObs.prev_add.answer)
       /\ memObs.results[1].metadata.text =
            memory_text(strip(memObs.prev_add.question), strip(memObs.prev_add.answer))

\* the first turn, added with surrounding whitespace, is found trimmed
C7_Witness ==
    /\ QueryAfterAdd
    /\ memObs.prev_add.count_before = 0
    /\ memObs.prev_add.question # strip(memObs.prev_add.question)
    /\ memObs.prev_add.answer # strip(memObs.prev_add.answer)
    /\ Len(memObs.results) = 1
    /\ memObs.results[1].metadata.question = strip(memObs.prev_add.question)

\* C10: after any sequence of add_interaction calls that returned, a store
\* newly constructed on the same directory holds exactly the entries
\* appended so far, in the same order, with as many vectors as entries.
C10_ReloadHoldsAppended ==
    LET loaded == _load_if_exists(memIndexFile, memMetadataFile)
    IN  /\ loaded.metadata = appended
        /\ Len(loaded.index.vectors) = Len(loaded.metadata)
        /\ \A i \in 1..Len(appended) :
              loaded.index.vectors[i] = encode(appended[i].text)
        /\ memObs.op = "reload" => memMetadata = appended /\ memIndex = loaded.index

\* a store reloaded after two turns
C10_Witness ==
    /\ memObs.op = "reload"
    /\ Len(appended) = 2
    /\ appended[1] # appended[2]
    /\ memMetadata = appended
    /\ Len(memIndex.vectors) = 2

(***************************************************************************)
(* Claims about search_and_summarize.                                      *)
(***************************************************************************)
\* the call assembled an empty knowledge context: no reranked result, or none
\* that carries text
EmptyKnowledge ==
    /\ call.status # "none"
    /\ \A i \in 1..Len(call.knowledge_results) :
          call.knowledge_results[i].metadata.text = ""

\* C8: a call of search_and_summarize that assembles an empty knowledge
\* context returns exactly "No relevant documents found." and never invokes
\* the language model.
C8_EmptyContextShortCircuits ==
    EmptyKnowledge =>
        /\ call.status = "returned"
        /\ call.ret = NoDocs
        /\ call.llm_invocations = 0
        /\ pc = "idle"

\* a query on an index whose rows carry no text found rows and returned the
\* fixed response
C8_Witness ==
    /\ EmptyKnowledge
    /\ call.knowledge_results # <<>>
    /\ call.status = "returned"
    /\ call.ret = NoDocs

\* C9: when add_interaction raises after the language model has answered,
\* search_and_summarize still returns the answer.
C9_RecordFailureStillAnswers ==
    (call.answered /\ call.record_raised) =>
        (call.status = "returned" /\ call.ret = call.answer)

(***************************************************************************)
(* Claims about the credential check of the construction.                  *)
(***************************************************************************)
\* C11: a construction that raises for the missing credential performs no
\* other operation: it loads no document and leaves the persisted index and
\* the persisted manifest as they were before it.
C11_MissingKeyTouchesNothing ==
    [][(last.strategy = "none" /\ last'.strategy # "none" /\ last'.raised) =>
            /\ last'.loaded = {}
            /\ indexFiles' = indexFiles
            /\ manifestFile' = manifestFile]_vars

(***************************************************************************)
(* More claims about the conversation memory store.                        *)
(***************************************************************************)
\* C12: a query on a store that has no index, or no metadata entry, returns
\* the empty sequence and does not raise, whatever the query text and top_k.
C12_EmptyStoreQueryIsEmpty ==
    (memObs.op = "query" /\ (~memIndex.exists \/ memMetadata = <<>>)) =>
        /\ memObs.results = <<>>
        /\ ~memObs.raised

\* a query for "yo" with a positive top_k on a store that was never written
C12_Witness ==
    /\ memObs.op = "query"
    /\ ~memIndex.exists
    /\ memMetadata = <<>>
    /\ memObs.question # <<>>
    /\ memObs.top_k >= 1
    /\ memObs.results = <<>>
    /\ ~memObs.raised

\* the number of items a file of the store holds (none when it is missing)
StoredCount(file) == IF file.exists THEN Len(file.data) ELSE 0

\* C13: in every reachable state, also after a failure in the middle of
\* add_interaction or _save, the number of stored vectors equals the number
\* of metadata entries, in memory and in the persisted file pair.
C13_VectorsMatchEntries ==
    /\ Len(memIndex.vectors) = Len(memMetadata)
    /\ StoredCount(memIndexFile) = StoredCount(memMetadataFile)

AnsweredAndReturned == call.answered /\ call.status = "returned"

\* C15 (as claimed, for a query that is not empty): every call that obtains
\* an answer from the language model appends exactly one entry to the
\* conversation memory, whatever the answer text is.
C15_OneEntryPerAnswer ==
    (AnsweredAndReturned /\ strip(call.query) # <<>>) =>
        Len(memMetadata) = Len(call.memory_before) + 1

\* C15 (amended): a call that returns the answer of the language model
\* appends exactly one entry, holding the trimmed query and the trimmed
\* answer, when both are non-empty after trimming, and none otherwise; no
\* call appends more than one.
C15_OneEntryPerAnswer_Amended ==
    /\ AnsweredAndReturned =>
          IF strip(call.query) = <<>> \/ strip(call.answer) = <<>>
          THEN memMetadata = call.memory_before
          ELSE /\ Len(memMetadata) = Len(call.memory_before) + 1
               /\ SubSeq(memMetadata, 1, Len(call.memory_before)) = call.memory_before
               /\ memMetadata[Len(memMetadata)].question = strip(call.query)
               /\ memMetadata[Len(memMetadata)].answer = strip(call.answer)
    /\ call.status # "none" => Len(memMetadata) <= Len(call.memory_before) + 1

\* a second turn recorded behind the first
C15_Witness ==
    /\ AnsweredAndReturned
    /\ call.memory_before # <<>>
    /\ Len(memMetadata) = Len(call.memory_before) + 1
    /\ memMetadata[Len(memMetadata)].question = call.query

(***************************************************************************)
(* Claims about the calls on one ConversationMemoryStore.                  *)
(***************************************************************************)
\* s is a prefix of t
IsPrefix(s, t) == Len(s) <= Len(t) /\ SubSeq(t, 1, Len(s)) = s

\* C16: over the add_interaction and query calls on one store object, the
\* metadata sequence before a call is a prefix of the one after it, and a
\* query changes nothing of the store or of its files.
C16_AppendOnly ==
    [][memObs'.op # "reload" =>
          /\ IsPrefix(memMetadata, memMetadata')
          /\ memObs'.op = "query" =>
                /\ memMetadata' = memMetadata
                /\ memIndex' = memIndex
                /\ memIndexFile' = memIndexFile
                /\ memMetadataFile' = memMetadataFile]_vars

\* a turn added to a store that held one
C16_Witness ==
    /\ memObs.op = "add"
    /\ ~memObs.raised
    /\ memObs.prev_add.count_before = 1
    /\ Len(memMetadata) = 2
    /\ memMetadata[1].timestamp_utc < memMetadata[2].timestamp_utc

\* C17: add_interaction with a question or an answer that is empty after
\* trimming changes neither the index, nor the metadata, nor the two files,
\* and raises nothing.
C17_EmptyAddIsNoOp ==
    [][(memObs'.op = "add"
          /\ (strip(memObs'.question) = <<>> \/ strip(memObs'.answer) = <<>>)) =>
          /\ memIndex' = memIndex
          /\ memMetadata' = memMetadata
          /\ memIndexFile' = memIndexFile
          /\ memMetadataFile' = memMetadataFile
          /\ ~memObs'.raised]_vars

\* add_interaction("yo", " ") on a store that holds a turn
C17_Witness ==
    /\ memObs.op = "add"
    /\ memObs.question # <<>>
    /\ memObs.answer # <<>>
    /\ strip(memObs.answer) = <<>>
    /\ ~memObs.raised
    /\ memObs.prev_add.count_before = 1
    /\ Len(memMetadata) = 1

(***************************************************************************)
(* Claims about the boost decision of the reranker.  The two conditions    *)
(* are stated on the inputs: "Give me TOC" is the query of the inputs that *)
(* contains trigger phrases ("give me", "toc", in another case), "hello"   *)
(* contains none.                                                          *)
(***************************************************************************)
Targeted ==
    rr.query = <<"G", "i", "v", "e", " ", "m", "e", " ", "T", "O", "C">>

\* target-category chunks / indexed chunks < 30%, the ratio of an empty
\* index being 0
RatioBelow30 ==
    IF rr.stats.total_chunks = 0 THEN TRUE
    ELSE 10 * rr.stats.copyofexam_chunks < 3 * rr.stats.total_chunks

\* the first top_k candidates in their input order
Truncated == SubSeq(rr.results, 1, Min2(rr.top_k, Len(rr.results)))

HasCopyCandidate == \E i \in 1..Len(rr.results) : IsCopyRow(rr.results[i])

\* C18: boosting is applied exactly when the query contains a trigger phrase
\* and the ratio is strictly below 30%: then a target-category candidate
\* heads the output whenever there is one, and otherwise (untargeted query,
\* or ratio of 30% or more) the output is the plain truncation.
C18_BoostIffTargetedAndBelow ==
    rr.done =>
        IF Targeted /\ RatioBelow30
        THEN HasCopyCandidate => (rr.out # <<>> /\ IsCopyRow(rr.out[1]))
        ELSE rr.out = Truncated

\* a targeted query at a ratio of exactly 30%: the target row stays behind
C18_Witness ==
    /\ rr.done
    /\ Targeted
    /\ rr.stats = [total_chunks |-> 10, copyofexam_chunks |-> 3]
    /\ rr.top_k = 1
    /\ Len(rr.results) = 2
    /\ ~IsCopyRow(rr.results[1])
    /\ IsCopyRow(rr.results[2])
    /\ rr.out = <<rr.results[1]>>

\* C19: when boosting is not active, _adapt_results returns exactly the first
\* top_k candidates in their input order, for top_k >= 0.
C19_NoBoostTruncates ==
    (rr.done /\ ~Boosting) =>
        /\ Len(rr.out) = Min2(rr.top_k, Len(rr.results))
        /\ \A i \in 1..Len(rr.out) : rr.out[i] = rr.results[i]

\* an untargeted query: three candidates, the last of the target category,
\* cut to the first two
C19_Witness ==
    /\ rr.done
    /\ ~Targeted
    /\ rr.top_k = 2
    /\ Len(rr.results) = 3
    /\ IsCopyRow(rr.results[3])
    /\ ~IsCopyRow(rr.results[1])
    /\ rr.results[1] # rr.results[2]
    /\ rr.out = <<rr.results[1], rr.results[2]>>

(***************************************************************************)
(* Claims about the short circuit of search_and_summarize.                 *)
(***************************************************************************)
\* C20: a call that short-circuits with the fixed response (its knowledge
\* context is empty and it returns without an answer of the language model)
\* leaves the conversation memory unchanged, in memory and on disk.
C20_ShortCircuitRecordsNothing ==
    [][((call'.status = "returned" /\ ~call'.answered) \/ EmptyKnowledge') =>
          /\ memIndex' = memIndex
          /\ memMetadata' = memMetadata
          /\ memIndexFile' = memIndexFile
          /\ memMetadataFile' = memMetadataFile]_vars

\* a call short-circuited after a turn had been recorded
C20_Witness ==
    /\ call.status = "returned"
    /\ ~call.answered
    /\ call.ret = NoDocs
    /\ call.query # <<>>
    /\ call.memory_before # <<>>
    /\ memMetadata = call.memory_before
    /\ memMetadataFile.data = call.memory_before

(***************************************************************************)
(* Claims about the order of the steps of one search_and_summarize call.   *)
(***************************************************************************)
\* the turns quoted in the memory context of the call (the blocks between
\* the separators)
MemoryContextTurns ==
    {call.memory_context[i] : i \in {j \in 1..Len(call.memory_context) : j % 2 = 1}}

\* the entries the conversation memory got since the call began
TurnsOfThisCall ==
    {memMetadata[n] : n \in (Len(call.memory_before) + 1)..Len(memMetadata)}

\* C21: within one call the memory store is queried before the language
\* model is invoked and the new turn is written only after the model
\* returned: the memory context handed to the model quotes only turns that
\* earlier calls recorded, never the turn of this call, and the model is
\* invoked at most once in a call.
C21_QueryThenModelThenRecord ==
    /\ call.llm_invocations <= 1
    /\ call.status # "none" =>
          /\ IsPrefix(call.memory_before, memMetadata)
          /\ \A b \in MemoryContextTurns :
                /\ b.label = "conversation memory"
                /\ \E e \in Range(call.memory_before) :
                      b.page = e.timestamp_utc /\ b.text = e.text
                /\ \A e \in TurnsOfThisCall : b.page # e.timestamp_utc
          /\ pc = "llm" => call.llm_invocations = 0 /\ memMetadata = call.memory_before
          /\ pc = "record" =>
                call.llm_invocations = 1 /\ call.answered /\ memMetadata = call.memory_before
          /\ TurnsOfThisCall # {} => call.llm_invocations = 1 /\ call.answered

\* a call that quoted an earlier turn to the model and then recorded its own
C21_Witness ==
    /\ call.status = "returned"
    /\ call.llm_invocations = 1
    /\ MemoryContextTurns # {}
    /\ TurnsOfThisCall # {}
    /\ call.memory_before # <<>>

(***************************************************************************)
(* Claims about an increment that gets documents from some of the added    *)
(* files only.                                                             *)
(***************************************************************************)
\* the construction took the incremental path, some added file gave
\* documents and some added file gave none
PartialYield ==
    /\ last.strategy = "incremental"
    /\ last.new_docs > 0
    /\ last.empty # {}

\* a construction that finds the directory and the store as such an
\* increment left them (with constructions that found nothing to do between)
AfterPartialYield == last.strategy # "none" /\ last.skipped # {}

\* C22: an increment in which one added file gives content and another gives
\* none persists the whole current snapshot as the manifest, the file
\* without content included; every later construction on the unchanged
\* directory finds that file not added and does not load it, and only a full
\* rebuild loads it again.
C22_PartialYieldRecordsAll ==
    /\ PartialYield =>
          /\ manifestFile = _save_manifest(D2)
          /\ \A f \in last.empty :
                f \in DOMAIN _load_manifest(manifestFile)
                    /\ _load_manifest(manifestFile)[f] = dir[f]
    /\ AfterPartialYield =>
          /\ last.skipped \cap added_files(D2, D1) = {}
          /\ IF last.rebuild_index
             THEN last.strategy = "full" /\ last.skipped \subseteq last.loaded
             ELSE /\ last.strategy = "noop"
                  /\ last.loaded = {}
                  /\ manifestFile = last.manifest_before
                  /\ \A i \in 1..Len(vsMetadata) : vsMetadata[i].source \notin last.skipped

\* a construction after the increment passes over the file without content
C22_Witness ==
    /\ AfterPartialYield
    /\ ~last.rebuild_index
    /\ last.strategy = "noop"
    /\ vsMetadata # <<>>
    /\ last.skipped \subseteq DOMAIN dir

====
